---- MODULE Spec2Model ----
(***************************************************************************)
(* Discrete weighted Voronoi tessellation by wavefront expansion           *)
(* (declanvk/discrete-voronoi).  The model follows src/src/grid.rs,        *)
(* src/src/metric.rs and src/src/discrete_voronoi.rs.                      *)
(*                                                                         *)
(* Representation                                                          *)
(*   site            <<x, y, weight>>          (isize, isize, f32)         *)
(*   GridIdx         <<x, y>>                                              *)
(*   Option<T>       <<>> (None) or <<v>> (Some(v))                         *)
(*   BoundingBox     [x_offset, y_offset, width, height]                   *)
(*   Grid            [bounds, data], data a dense array indexed from 0     *)
(*   distance        [rad, sub, den], the real (sqrt(rad) - sub) / den;    *)
(*                   the f64/f32 arithmetic of metric.rs is exact on the   *)
(*                   order of such values for the small integers and the   *)
(*                   power-of-two weights used here                        *)
(***************************************************************************)
EXTENDS Integers, Sequences, FiniteSets, TLC

VARIABLES
    pc,       \* position of the program: "init", "builder", "idle", "compute", "step", "panic"
    input,    \* the Vec<S> handed to VoronoiBuilder::new
    bsites,   \* VoronoiBuilder.sites
    bounds,   \* VoronoiBuilder.bounds : Option<BoundingBox>
    metric,   \* the Metric type parameter M
    sites,    \* VoronoiTesselation.sites : SiteOwner -> SiteWrapper
    grid,     \* VoronoiTesselation.grid
    order,    \* iteration order of the sites HashMap (fixed while the map is not modified)
    keys,     \* step(): the keys still to be visited in the running round
    caller,   \* which public call is running: "step" or "compute"
    last,     \* the public call that returned last: "build", "step" or "compute"
    rounds,   \* compute(): the step() calls the running compute() has made
    nsteps    \* the step() calls the caller has made on this tessellation

vars == <<pc, input, bsites, bounds, metric, sites, grid, order, keys, caller, last, rounds, nsteps>>

\* ---------------------------------------------------------------- bounds
GridW == 2
GridH == 1
MaxSites == 2
MaxSteps == 1
MaxProbeCells == 6

\* ---------------------------------------------------------------- helpers
None == <<>>
Some(v) == <<v>>

Range(s) == {s[i] : i \in DOMAIN s}

Abs(n) == IF n < 0 THEN -n ELSE n

RECURSIVE Concat(_)
Concat(ss) == IF ss = <<>> THEN <<>> ELSE Head(ss) \o Concat(Tail(ss))

\* a for loop over the sequence s: F is the loop body, acc the state it updates
RECURSIVE Fold(_, _, _)
Fold(F(_, _), acc, s) ==
    IF s = <<>> THEN acc
    ELSE CHOOSE r \in {Fold(F, v[1], v[2]) : v \in {<<F(acc, Head(s)), Tail(s)>>}} : TRUE

Perms(S) ==
    {p \in [1..Cardinality(S) -> S] : \A i, j \in DOMAIN p : i # j => p[i] # p[j]}

\* ---------------------------------------------------------------- site.rs
coordinates(s) == <<s[1], s[2]>>
weight(s) == s[3]

\* ---------------------------------------------------------------- metric.rs
magnitude(a, b) ==
    LET mag_x == (a[1] - b[1]) * (a[1] - b[1])
        mag_y == (a[2] - b[2]) * (a[2] - b[2])
    IN  mag_x + mag_y

Euclidean_distance(a, b) == [rad |-> magnitude(a, b), sub |-> 0, den |-> 1]

\* variant: the distance is multiplied by the weight
MultWeightedEuclidean_distance_times(a, b) ==
    [rad |-> magnitude(a, b) * weight(a) * weight(a), sub |-> 0, den |-> 1]

MultWeightedEuclidean_distance(a, b) ==
    [rad |-> magnitude(a, b), sub |-> 0, den |-> weight(a)]

AdditiveWeightedEuclidean_distance(a, b) ==
    [rad |-> magnitude(a, b), sub |-> weight(a), den |-> 1]

PowerEuclidean_distance(a, b) ==
    [rad |-> 0, sub |-> weight(a) * weight(a) - magnitude(a, b), den |-> 1]

Manhattan_distance(a, b) ==
    LET mag_x == Abs(a[1] - b[1])
        mag_y == Abs(a[2] - b[2])
    IN  [rad |-> 0, sub |-> 0 - (mag_x + mag_y), den |-> 1]

distance(m, a, b) ==
    CASE m = "Euclidean" -> Euclidean_distance(a, b)
      [] m = "Manhattan" -> Manhattan_distance(a, b)
      [] m = "MultWeightedEuclidean" -> MultWeightedEuclidean_distance(a, b)
      [] m = "AdditiveWeightedEuclidean" -> AdditiveWeightedEuclidean_distance(a, b)
      [] m = "PowerEuclidean" -> PowerEuclidean_distance(a, b)

\* sign of sqrt(A) - sqrt(B) - K for naturals A, B and an integer K
Sign(n) == IF n < 0 THEN -1 ELSE IF n = 0 THEN 0 ELSE 1
SqrtCmpPos(A, B, K) ==
    LET L == A - B - K * K
    IN  IF L < 0 THEN -1 ELSE Sign(L * L - 4 * K * K * B)
SqrtCmp(A, B, K) ==
    IF K = 0 THEN Sign(A - B)
    ELSE IF K > 0 THEN SqrtCmpPos(A, B, K)
    ELSE 0 - SqrtCmpPos(B, A, 0 - K)

\* PartialOrd on Metric::Output: sign of d1 - d2
DistCmp(d1, d2) ==
    SqrtCmp(d2.den * d2.den * d1.rad, d1.den * d1.den * d2.rad,
            d2.den * d1.sub - d1.den * d2.sub)

\* ---------------------------------------------------------------- grid.rs
BoundingBox_new(x_offset, y_offset, width, height) ==
    [x_offset |-> x_offset, y_offset |-> y_offset, width |-> width, height |-> height]

SetMin(S) == CHOOSE m \in S : \A n \in S : m <= n
SetMax(S) == CHOOSE m \in S : \A n \in S : m >= n

\* variant: the assert! is missing; the loop leaves min = isize::MAX and
\* max = isize::MIN, and the wrapping width and height are 2
fit_to_sites_unchecked(ss) ==
    IF ss = <<>> THEN Some(BoundingBox_new(0, 0, 2, 2))
    ELSE LET xs == {coordinates(ss[i])[1] : i \in DOMAIN ss}
             ys == {coordinates(ss[i])[2] : i \in DOMAIN ss}
         IN  Some(BoundingBox_new(SetMin(xs), SetMin(ys),
                                  SetMax(xs) - SetMin(xs) + 1, SetMax(ys) - SetMin(ys) + 1))

\* variant: width and height without the + 1
fit_to_sites_narrow(ss) ==
    IF ss = <<>> THEN None
    ELSE LET xs == {coordinates(ss[i])[1] : i \in DOMAIN ss}
             ys == {coordinates(ss[i])[2] : i \in DOMAIN ss}
         IN  Some(BoundingBox_new(SetMin(xs), SetMin(ys),
                                  SetMax(xs) - SetMin(xs), SetMax(ys) - SetMin(ys)))

\* None stands for the failed assert! of line 25 (the call panics)
fit_to_sites(ss) ==
    IF ss = <<>> THEN None
    ELSE LET xs == {coordinates(ss[i])[1] : i \in DOMAIN ss}
             ys == {coordinates(ss[i])[2] : i \in DOMAIN ss}
             min_x == SetMin(xs)
             max_x == SetMax(xs)
             min_y == SetMin(ys)
             max_y == SetMax(ys)
             width == max_x - min_x + 1
             height == max_y - min_y + 1
         IN  Some([x_offset |-> min_x, y_offset |-> min_y, width |-> width, height |-> height])

translate_idx(b, idx) == <<idx[1] - b.x_offset, idx[2] - b.y_offset>>

\* variant: the upper limits are inclusive
inside_le(idx, b) ==
    LET adjusted_x == idx[1] - b.x_offset
        adjusted_y == idx[2] - b.y_offset
    IN  0 <= adjusted_x /\ adjusted_x <= b.width /\ 0 <= adjusted_y /\ adjusted_y <= b.height

inside(idx, b) ==
    LET adjusted_x == idx[1] - b.x_offset
        adjusted_y == idx[2] - b.y_offset
    IN  0 <= adjusted_x /\ adjusted_x < b.width /\ 0 <= adjusted_y /\ adjusted_y < b.height

\* row-major enumeration of the box, x fastest
coordinates_iter(b) ==
    [k \in 1..(b.width * b.height) |->
        <<b.x_offset + ((k - 1) % b.width), b.y_offset + ((k - 1) \div b.width)>>]

\* variant: the iterator does not test inside
neighbors_unfiltered(idx, b) ==
    << <<idx[1], idx[2] + 1>>, <<idx[1] + 1, idx[2]>>, <<idx[1], idx[2] - 1>>, <<idx[1] - 1, idx[2]>> >>

\* variant: the iterator skips east
neighbors_no_east(idx, b) ==
    LET possible == << <<idx[1], idx[2] + 1>>, <<idx[1], idx[2] - 1>>, <<idx[1] - 1, idx[2]>> >>
    IN  SelectSeq(possible, LAMBDA p : inside(p, b))

neighbors(idx, b) ==
    LET possible == << <<idx[1], idx[2] + 1>>,     \* north
                       <<idx[1] + 1, idx[2]>>,     \* east
                       <<idx[1], idx[2] - 1>>,     \* south
                       <<idx[1] - 1, idx[2]>> >>   \* west
    IN  SelectSeq(possible, LAMBDA p : inside(p, b))

Cell_new(c) == [coordinates |-> c, contested |-> FALSE, owner |-> None]

\* dense offset x + y * width of Index / IndexMut
Offset(b, idx) ==
    LET t == translate_idx(b, idx) IN t[1] + t[2] * b.width

InRange(g, idx) == Offset(g.bounds, idx) \in DOMAIN g.data

Grid_new(b) ==
    LET cs == coordinates_iter(b)
    IN  [bounds |-> b,
         data |-> [o \in 0..(b.width * b.height - 1) |->
                     Cell_new(CHOOSE c \in Range(cs) : Offset(b, c) = o)]]

set_owner(cell, new_owner) == [cell EXCEPT !.owner = Some(new_owner)]

\* variant: the contested flag is not tested, a pending cell is claimed
claim_one_no_flag(st, idx, claimant) ==
    IF ~st.ok \/ ~InRange(st.grid, idx) THEN [st EXCEPT !.ok = FALSE]
    ELSE LET o == Offset(st.grid.bounds, idx)
             cell == st.grid.data[o]
             same_owner == cell.owner # None /\ cell.owner[1] = claimant
             empty == cell.owner = None
         IN  IF ~same_owner /\ empty
             THEN [st EXCEPT !.grid.data[o].owner = Some(claimant),
                             !.claimed = Append(@, idx)]
             ELSE IF ~same_owner /\ ~empty
             THEN [st EXCEPT !.grid.data[o].owner = None,
                             !.grid.data[o].contested = TRUE,
                             !.contested = Append(@, <<idx, cell.owner[1]>>)]
             ELSE st

\* variant: same_owner is not tested, the claimant contests its own cells
claim_one_no_same_owner(st, idx, claimant) ==
    IF ~st.ok \/ ~InRange(st.grid, idx) THEN [st EXCEPT !.ok = FALSE]
    ELSE LET o == Offset(st.grid.bounds, idx)
             cell == st.grid.data[o]
             contested == cell.contested
             empty == cell.owner = None
         IN  IF ~contested /\ empty
             THEN [st EXCEPT !.grid.data[o].owner = Some(claimant),
                             !.claimed = Append(@, idx)]
             ELSE IF ~empty
             THEN [st EXCEPT !.grid.data[o].owner = None,
                             !.grid.data[o].contested = TRUE,
                             !.contested = Append(@, <<idx, cell.owner[1]>>)]
             ELSE st

\* the body of the for loop of claim_cells for one index; st is
\* [grid, claimed, contested, ok], ok is FALSE once an index fell outside
\* the data array (the slice index panics)
claim_one(st, idx, claimant) ==
    IF ~st.ok \/ ~InRange(st.grid, idx) THEN [st EXCEPT !.ok = FALSE]
    ELSE LET o == Offset(st.grid.bounds, idx)
             cell == st.grid.data[o]
             same_owner == cell.owner # None /\ cell.owner[1] = claimant
             contested == cell.contested
             empty == cell.owner = None
         IN  IF ~same_owner /\ ~contested /\ empty
             THEN [st EXCEPT !.grid.data[o].owner = Some(claimant),
                             !.claimed = Append(@, idx)]
             ELSE IF ~same_owner /\ ~empty
             THEN [st EXCEPT !.grid.data[o].owner = None,
                             !.grid.data[o].contested = TRUE,
                             !.contested = Append(@, <<idx, cell.owner[1]>>)]
             ELSE st

claim_cells(g, indices, claimant) ==
    Fold(LAMBDA st, idx : claim_one(st, idx, claimant),
         [grid |-> g, claimed |-> <<>>, contested |-> <<>>, ok |-> TRUE], indices)

\* ---------------------------------------------------------------- discrete_voronoi.rs
\* lexicographic Ord on the (isize, isize) sort key
KeyLeq(a, b) == a[1] < b[1] \/ (a[1] = b[1] /\ a[2] <= b[2])

\* sort_unstable_by_key: every arrangement of s that is ordered by the key
\* (the order of elements with equal keys is not specified)
sort_unstable_by_key(s) ==
    {[i \in DOMAIN s |-> s[p[i]]] : p \in
        {q \in Perms(DOMAIN s) :
            \A i \in 1..(Len(s) - 1) : KeyLeq(coordinates(s[q[i]]), coordinates(s[q[i + 1]]))}}

\* dedup_by_key: of each run of consecutive equal keys the first element stays
RECURSIVE dedup_by_key(_)
dedup_by_key(s) ==
    IF Len(s) <= 1 THEN s
    ELSE LET rest == dedup_by_key(Tail(s))
         IN  IF coordinates(Head(s)) = coordinates(Head(rest))
             THEN <<Head(s)>> \o Tail(rest)
             ELSE <<Head(s)>> \o rest

\* variant: the Vec is sorted but not deduplicated
VoronoiBuilder_new_no_dedup(s) == sort_unstable_by_key(s)

VoronoiBuilder_new(s) == {dedup_by_key(t) : t \in sort_unstable_by_key(s)}

SiteWrapper_new(id, site) ==
    [id |-> id, site |-> site, newly_claimed |-> <<>>, boundary_chain |-> <<>>]

\* boundary_chain.par_extend(newly_claimed.flat_map(neighbors)); a Vec keeps
\* the order of the parallel iterator
update_boundary_chain(w, b) ==
    [w EXCEPT !.boundary_chain =
        w.boundary_chain \o Concat([i \in DOMAIN w.newly_claimed |-> neighbors(w.newly_claimed[i], b)])]

\* variant: the seed is claimed but not recorded in newly_claimed
init_one_no_append(st, k) ==
    LET to_claim == <<coordinates(st.sites[k].site)>>
        r == claim_cells(st.grid, to_claim, st.sites[k].id)
    IN  [grid |-> r.grid,
         sites |-> st.sites,
         ok |-> st.ok /\ r.ok,
         asserted |-> st.asserted /\ Len(r.claimed) = 1 /\ r.contested = <<>>]

\* the body of the for loop of init_sites for the key k; st is
\* [grid, sites, ok, asserted], asserted is FALSE once a debug_assert of
\* lines 180-181 did not hold
init_one(st, k) ==
    LET to_claim == <<coordinates(st.sites[k].site)>>
        r == claim_cells(st.grid, to_claim, st.sites[k].id)
    IN  [grid |-> r.grid,
         sites |-> [st.sites EXCEPT ![k].newly_claimed = @ \o to_claim],
         ok |-> st.ok /\ r.ok,
         asserted |-> st.asserted /\ Len(r.claimed) = 1 /\ r.contested = <<>>]

\* init_sites over the map's iteration order ks
init_sites(g, ss, ks) ==
    Fold(init_one, [grid |-> g, sites |-> ss, ok |-> TRUE, asserted |-> TRUE], ks)

sum_newly_claimed(ss) ==
    LET RECURSIVE total(_)
        total(S) == IF S = {} THEN 0
                    ELSE LET k == CHOOSE x \in S : TRUE
                         IN  Len(ss[k].newly_claimed) + total(S \ {k})
    IN  total(DOMAIN ss)

\* variant: on equal distances the previous owner is restored
resolve_tie_keeps(m, ss, owner_idx, st, c) ==
    LET idx == c[1]
        old_owner == c[2]
        o == Offset(st.grid.bounds, idx)
        our_distance == distance(m, ss[owner_idx].site, idx)
        their_distance == distance(m, ss[old_owner].site, idx)
    IN  IF DistCmp(their_distance, our_distance) > 0
        THEN [grid |-> [st.grid EXCEPT !.data[o] = set_owner(@, ss[owner_idx].id)],
              claimed |-> Append(st.claimed, idx)]
        ELSE [st EXCEPT !.grid.data[o] = set_owner(@, old_owner)]

\* variant: a lost cell is pushed to claimed as well
resolve_lose_push(m, ss, owner_idx, st, c) ==
    LET idx == c[1]
        old_owner == c[2]
        o == Offset(st.grid.bounds, idx)
        our_distance == distance(m, ss[owner_idx].site, idx)
        their_distance == distance(m, ss[old_owner].site, idx)
    IN  IF DistCmp(their_distance, our_distance) > 0
        THEN [grid |-> [st.grid EXCEPT !.data[o] = set_owner(@, ss[owner_idx].id)],
              claimed |-> Append(st.claimed, idx)]
        ELSE IF DistCmp(their_distance, our_distance) = 0
        THEN st
        ELSE [grid |-> [st.grid EXCEPT !.data[o] = set_owner(@, old_owner)],
              claimed |-> Append(st.claimed, idx)]

\* variant: a previous owner that is closer is not restored
resolve_no_restore(m, ss, owner_idx, st, c) ==
    LET idx == c[1]
        old_owner == c[2]
        o == Offset(st.grid.bounds, idx)
        our_distance == distance(m, ss[owner_idx].site, idx)
        their_distance == distance(m, ss[old_owner].site, idx)
    IN  IF DistCmp(their_distance, our_distance) > 0
        THEN [grid |-> [st.grid EXCEPT !.data[o] = set_owner(@, ss[owner_idx].id)],
              claimed |-> Append(st.claimed, idx)]
        ELSE st

\* the body of the for loop of handle_conflicts for the pair c = (idx,
\* old_owner); st is [grid, claimed]
resolve(m, ss, owner_idx, st, c) ==
    LET idx == c[1]
        old_owner == c[2]
        o == Offset(st.grid.bounds, idx)
        our_distance == distance(m, ss[owner_idx].site, idx)
        their_distance == distance(m, ss[old_owner].site, idx)
    IN  IF DistCmp(their_distance, our_distance) > 0
        THEN [grid |-> [st.grid EXCEPT !.data[o] = set_owner(@, ss[owner_idx].id)],
              claimed |-> Append(st.claimed, idx)]
        ELSE IF DistCmp(their_distance, our_distance) = 0
        THEN st
        ELSE [st EXCEPT !.grid.data[o] = set_owner(@, old_owner)]

\* handle_conflicts: result [grid, claimed]
handle_conflicts(m, ss, owner_idx, contested, g) ==
    Fold(LAMBDA st, c : resolve(m, ss, owner_idx, st, c),
         [grid |-> g, claimed |-> <<>>], contested)

\* variant: boundary_chain is not cleared before it is extended
turn_keep_chain(m, g, ss, k) ==
    LET w1 == update_boundary_chain(ss[k], g.bounds)
        r == claim_cells(g, w1.boundary_chain, w1.id)
        w2 == [w1 EXCEPT !.newly_claimed = r.claimed]
        ss2 == [ss EXCEPT ![k] = w2]
        h == handle_conflicts(m, ss2, k, r.contested, r.grid)
    IN  [grid |-> h.grid,
         sites |-> [ss2 EXCEPT ![k].newly_claimed = @ \o h.claimed],
         ok |-> r.ok]

\* variant: the cells won in conflicts are not appended to newly_claimed
turn_drop_won(m, g, ss, k) ==
    LET w1 == update_boundary_chain([ss[k] EXCEPT !.boundary_chain = <<>>], g.bounds)
        r == claim_cells(g, w1.boundary_chain, w1.id)
        w2 == [w1 EXCEPT !.newly_claimed = r.claimed]
        ss2 == [ss EXCEPT ![k] = w2]
        h == handle_conflicts(m, ss2, k, r.contested, r.grid)
    IN  [grid |-> h.grid, sites |-> ss2, ok |-> r.ok]

\* the body of the for loop of step() for one key: result [grid, sites, ok]
turn(m, g, ss, k) ==
    LET w1 == update_boundary_chain([ss[k] EXCEPT !.boundary_chain = <<>>], g.bounds)
        r == claim_cells(g, w1.boundary_chain, w1.id)
        w2 == [w1 EXCEPT !.newly_claimed = r.claimed]
        ss2 == [ss EXCEPT ![k] = w2]
        h == handle_conflicts(m, ss2, k, r.contested, r.grid)
    IN  [grid |-> h.grid,
         sites |-> [ss2 EXCEPT ![k].newly_claimed = @ \o h.claimed],
         ok |-> r.ok]

\* step(): one round over the keys ks
step(m, g, ss, ks) ==
    Fold(LAMBDA st, k : turn(m, st.grid, st.sites, k), [grid |-> g, sites |-> ss, ok |-> TRUE], ks)

\* compute(): rounds until no site has a newly claimed cell
RECURSIVE compute(_, _, _, _)
compute(m, g, ss, ks) ==
    IF sum_newly_claimed(ss) > 0
    THEN LET s == step(m, g, ss, ks) IN compute(m, s.grid, s.sites, ks)
    ELSE [grid |-> g, sites |-> ss]

\* ---------------------------------------------------------------- inputs
Metrics == {"Euclidean", "Manhattan", "MultWeightedEuclidean",
            "AdditiveWeightedEuclidean", "PowerEuclidean"}

\* Euclidean and Manhattan never read the weight
Weights(m) == IF m \in {"Euclidean", "Manhattan"} THEN {1} ELSE {1, 2}

SitePool(m) == {<<x, y, w>> : x \in 0..(GridW - 1), y \in 0..(GridH - 1), w \in Weights(m)}

SeqsUpTo(S, n) == UNION {[1..k -> S] : k \in 0..n}

\* no bounds() call, or a box that is shifted by one column against the
\* coordinates of the pool: it clips the first column and adds a free one
Boxes == {None, Some(BoundingBox_new(1, 0, GridW, GridH))}

GenericCalls ==
    UNION {{[input |-> i, bounds |-> b, metric |-> m] :
               i \in SeqsUpTo(SitePool(m), MaxSites), b \in Boxes} : m \in Metrics}

\* the inputs of the repository's tests and of the properties of spec section 8
DedupSites == << <<1, 1, 1>>, <<1, 1, 2>>, <<2, 2, 1>> >>
SixSites == [i \in 1..6 |-> <<i, i, i>>]
SplitSites == << <<0, 0, 1>>, <<4, 0, 1>> >>
DiagonalSites == << <<0, 0, 1>>, <<1, 1, 1>> >>
BlockedSites == << <<0, 1, 1>>, <<1, 2, 1>>, <<3, 3, 1>> >>
DominanceSites == << <<2, 4, 8>>, <<9, 11, 1>>, <<4, 9, 8>>, <<9, 4, 1>> >>

ExampleCalls ==
    {[input |-> DedupSites, bounds |-> None, metric |-> "Euclidean"],
     [input |-> SixSites, bounds |-> Some(BoundingBox_new(2, 2, 3, 3)), metric |-> "Euclidean"],
     [input |-> SixSites, bounds |-> None, metric |-> "Euclidean"],
     [input |-> SplitSites, bounds |-> Some(BoundingBox_new(0, 0, 5, 1)), metric |-> "Euclidean"],
     [input |-> BlockedSites, bounds |-> Some(BoundingBox_new(0, 0, 4, 4)), metric |-> "Euclidean"],
     [input |-> DiagonalSites, bounds |-> Some(BoundingBox_new(0, 0, 3, 2)), metric |-> "Manhattan"],
     [input |-> DominanceSites, bounds |-> Some(BoundingBox_new(0, 0, 14, 14)),
      metric |-> "MultWeightedEuclidean"]}

\* ---------------------------------------------------------------- state machine
Init ==
    /\ \E c \in GenericCalls \cup ExampleCalls :
          /\ input = c.input
          /\ bounds = c.bounds
          /\ metric = c.metric
    /\ pc = "init"
    /\ bsites = <<>>
    /\ sites = <<>>
    /\ grid = None
    /\ order = <<>>
    /\ keys = <<>>
    /\ caller = "none"
    /\ last = "none"
    /\ rounds = 0
    /\ nsteps = 0

\* VoronoiBuilder::new(sites), followed by .metric::<M>() and .bounds(b)
New ==
    /\ pc = "init"
    /\ bsites' \in VoronoiBuilder_new(input)
    /\ pc' = "builder"
    /\ UNCHANGED <<input, bounds, metric, sites, grid, order, keys, caller, last, rounds, nsteps>>

\* VoronoiBuilder::build(self); the builder is consumed
Build ==
    /\ pc = "builder"
    /\ IF bounds = None /\ fit_to_sites(bsites) = None
       THEN \* assert!(!sites.is_empty(), "Sites must not be empty")
            /\ pc' = "panic"
            /\ UNCHANGED <<sites, grid, order, last>>
       ELSE LET b == IF bounds # None THEN bounds[1] ELSE fit_to_sites(bsites)[1]
                filtered == SelectSeq(bsites, LAMBDA s : inside(coordinates(s), b))
                wrapped == [id \in 0..(Len(filtered) - 1) |-> SiteWrapper_new(id, filtered[id + 1])]
            IN  \E ks \in Perms(DOMAIN wrapped) :
                  LET r == init_sites(Grid_new(b), wrapped, ks)
                  IN  \/ /\ r.ok
                         /\ pc' = "idle"
                         /\ sites' = r.sites
                         /\ grid' = r.grid
                         /\ order' = ks
                         /\ last' = "build"
                      \/ /\ ~r.ok \/ ~r.asserted
                         /\ pc' = "panic"
                         /\ UNCHANGED <<sites, grid, order, last>>
    /\ input' = <<>>
    /\ bsites' = <<>>
    /\ bounds' = None
    /\ UNCHANGED <<metric, keys, caller, rounds, nsteps>>

\* a call of step(); the caller makes at most MaxSteps of them
CallStep ==
    /\ pc = "idle"
    /\ nsteps < MaxSteps
    /\ caller' = "step"
    /\ keys' = order
    /\ IF order = <<>>
       THEN pc' = "idle" /\ last' = "step"
       ELSE pc' = "step" /\ last' = last
    /\ nsteps' = nsteps + 1
    /\ UNCHANGED <<input, bsites, bounds, metric, sites, grid, order, rounds>>

\* variant: compute() as a do-while loop, the first round runs untested
CallCompute_do_while ==
    /\ pc = "idle"
    /\ caller' = "compute"
    /\ keys' = order
    /\ pc' = IF order = <<>> THEN "compute" ELSE "step"
    /\ UNCHANGED <<input, bsites, bounds, metric, sites, grid, order, last, rounds, nsteps>>

\* a call of compute(): control reaches the head of the while loop
CallCompute ==
    /\ pc = "idle"
    /\ caller' = "compute"
    /\ pc' = "compute"
    /\ UNCHANGED <<input, bsites, bounds, metric, sites, grid, order, keys, last, rounds, nsteps>>

\* compute(): the test of the while loop
ComputeLoop ==
    /\ pc = "compute"
    /\ IF sum_newly_claimed(sites) > 0
       THEN pc' = "step" /\ keys' = order /\ last' = last /\ rounds' = rounds + 1
       ELSE pc' = "idle" /\ keys' = keys /\ last' = "compute" /\ rounds' = 0
    /\ UNCHANGED <<input, bsites, bounds, metric, sites, grid, order, caller, nsteps>>

\* step(): the turn of the next key; after the last key step() returns
Turn ==
    /\ pc = "step"
    /\ keys # <<>>
    /\ LET t == turn(metric, grid, sites, Head(keys))
       IN  IF ~t.ok
           THEN /\ pc' = "panic"
                /\ UNCHANGED <<sites, grid, keys, last>>
           ELSE /\ sites' = t.sites
                /\ grid' = t.grid
                /\ keys' = Tail(keys)
                /\ pc' = IF Tail(keys) # <<>> THEN "step"
                         ELSE IF caller = "compute" THEN "compute" ELSE "idle"
                /\ last' = IF Tail(keys) = <<>> /\ caller = "step" THEN "step" ELSE last
    /\ UNCHANGED <<input, bsites, bounds, metric, order, caller, rounds, nsteps>>

Next == New \/ Build \/ CallStep \/ CallCompute \/ ComputeLoop \/ Turn

Spec == Init /\ [][Next]_vars

TypeOK ==
    /\ pc \in {"init", "builder", "idle", "compute", "step", "panic"}
    /\ caller \in {"none", "step", "compute"}
    /\ last \in {"none", "build", "step", "compute"}
    /\ rounds \in Nat
    /\ nsteps \in 0..MaxSteps

\* ---------------------------------------------------------------- properties
\* compute() has returned and no call was made since
Returned == pc = "idle" /\ last = "compute"

Offsets == DOMAIN grid.data

owner_of(g) == [o \in DOMAIN g.data |-> g.data[o].owner]

Seeds == {coordinates(sites[k].site) : k \in DOMAIN sites}

\* C1 (as stated): once compute() has returned on a nonempty set of sites,
\* every cell of the grid has an owner.
C1_Coverage ==
    (Returned /\ DOMAIN sites # {}) =>
        \A o \in Offsets : grid.data[o].owner # None

\* C1 (amended): once compute() has returned on a nonempty set of sites, every
\* cell of the grid has an owner or is marked contested.
C1_CoverageOrTie ==
    (Returned /\ DOMAIN sites # {}) =>
        \A o \in Offsets : grid.data[o].owner # None \/ grid.data[o].contested

\* compute() has returned on a grid where a wavefront claimed cells beyond the
\* seeds and a cell was left without an owner
C1_Witness ==
    /\ Returned
    /\ DOMAIN sites # {}
    /\ \E o \in Offsets : grid.data[o].owner = None /\ grid.data[o].contested
    /\ \E o \in Offsets : grid.data[o].owner # None /\ grid.data[o].coordinates \notin Seeds

\* squared Euclidean and Manhattan distance as integers
SqDist(a, b) == (a[1] - b[1]) * (a[1] - b[1]) + (a[2] - b[2]) * (a[2] - b[2])
ManDist(a, b) == Abs(a[1] - b[1]) + Abs(a[2] - b[2])
IntDist(m, a, b) == IF m = "Manhattan" THEN ManDist(a, b) ELSE SqDist(a, b)

\* C2: once compute() has returned under Manhattan or Euclidean, no site is
\* strictly closer to an owned cell than the owner of the cell.
C2_NearestOwner ==
    (Returned /\ metric \in {"Manhattan", "Euclidean"}) =>
        \A o \in Offsets : \A k \in DOMAIN sites :
            grid.data[o].owner # None =>
                IntDist(metric, sites[k].site, grid.data[o].coordinates)
                    >= IntDist(metric, sites[grid.data[o].owner[1]].site, grid.data[o].coordinates)

\* build() and compute() (or any calls that end with a compute()) on the sites, metric and bounds of the current
\* tessellation, with the map yielding the sites in the order ks
Rerun(ks) ==
    LET wrapped == [k \in DOMAIN sites |-> SiteWrapper_new(k, sites[k].site)]
        i == init_sites(Grid_new(grid.bounds), wrapped, ks)
    IN  compute(metric, i.grid, i.sites, ks)

\* C3: build() followed by compute() ends with the same owner for every cell,
\* whatever order the sites map yields the sites in.
C3_Determinism ==
    Returned =>
        \A ks \in Perms(DOMAIN sites) : owner_of(Rerun(ks).grid) = owner_of(grid)

\* a wavefront has claimed a cell beyond the seeds
Expanded == \E o \in Offsets : grid.data[o].owner # None /\ grid.data[o].coordinates \notin Seeds

\* C4: compute() terminates: the running compute() never makes more step()
\* rounds than cells times sites plus one, and when the loop test finds that
\* no site has a newly claimed cell the loop exits and compute() returns.
C4_Termination ==
    /\ [](grid # None => rounds <= Cardinality(Offsets) * Cardinality(DOMAIN sites) + 1)
    /\ [][(pc = "compute" /\ sum_newly_claimed(sites) = 0)
            => (pc' = "idle" /\ last' = "compute" /\ grid' = grid)]_vars
    /\ [][(pc = "compute" /\ sum_newly_claimed(sites) > 0) => pc' = "step"]_vars

\* the loop of compute() is about to exit after rounds in which cells were
\* claimed and contested
C4_Witness ==
    /\ pc = "compute"
    /\ rounds >= 2
    /\ sum_newly_claimed(sites) = 0
    /\ Expanded
    /\ \E o \in Offsets : grid.data[o].contested

\* C5: a compute() called after compute() has returned makes no step() round
\* and returns with every cell and every site's newly_claimed unchanged.
C5_Idempotence ==
    /\ [](Returned => sum_newly_claimed(sites) = 0)
    /\ [](~(pc = "step" /\ caller = "compute" /\ last = "compute"))
    /\ [][(pc = "compute" /\ last = "compute")
            => (pc' = "idle" /\ grid' = grid /\ sites' = sites)]_vars

\* a second compute() is at its loop test, after a first one that claimed cells
\* beyond the seeds
C5_Witness ==
    /\ pc = "compute"
    /\ last = "compute"
    /\ caller = "compute"
    /\ Expanded

\* the number of cells the site k owns
Owned(k) == Cardinality({o \in Offsets : grid.data[o].owner = Some(k)})

SplitCase ==
    /\ metric = "Euclidean"
    /\ grid.bounds = BoundingBox_new(0, 0, 5, 1)
    /\ DOMAIN sites = {0, 1}
    /\ {sites[k].site : k \in DOMAIN sites} = {<<0, 0, 1>>, <<4, 0, 1>>}

\* C6: with the weight-1 sites (0,0) and (4,0), the box (0,0) 5x1 and the
\* Euclidean metric, each site owns exactly 2 cells once compute() has
\* returned, in either visiting order.
C6_SymmetricSplit ==
    (Returned /\ SplitCase) => \A k \in DOMAIN sites : Owned(k) = 2

\* compute() has returned on the split example with site 1 visited first
C6_Witness ==
    /\ Returned
    /\ SplitCase
    /\ order = <<1, 0>>
    /\ grid.data[2].owner = None

\* the coordinates of the sites of the tessellation after the step
SeedsNext == {coordinates(sites'[k].site) : k \in DOMAIN sites'}

InBox(c, b) ==
    /\ b.x_offset <= c[1] /\ c[1] < b.x_offset + b.width
    /\ b.y_offset <= c[2] /\ c[2] < b.y_offset + b.height

\* C7: new() and build() leave no two sites with the same coordinates and one
\* site for every distinct input coordinate inside the box; the sites
\* (1,1,1),(1,1,2),(2,2,1) give exactly 2 sites, and build() fails only on an
\* empty input without a box.
C7_Dedup ==
    /\ [][(pc = "builder" /\ pc' = "idle") =>
            /\ \A j, k \in DOMAIN sites' :
                  j # k => coordinates(sites'[j].site) # coordinates(sites'[k].site)
            /\ SeedsNext = {c \in {coordinates(input[i]) : i \in DOMAIN input} :
                               InBox(c, grid'.bounds)}]_vars
    /\ [][(pc = "builder" /\ input = DedupSites /\ bounds = None) =>
            (pc' = "idle" /\ Cardinality(DOMAIN sites') = 2)]_vars
    /\ [][(pc = "builder" /\ pc' = "panic") => (input = <<>> /\ bounds = None)]_vars

\* build() has returned the tessellation of the sites (1,1,1),(1,1,2),(2,2,1)
C7_Witness ==
    /\ pc = "idle"
    /\ last = "build"
    /\ grid.bounds = BoundingBox_new(1, 1, 2, 2)
    /\ Seeds = {<<1, 1>>, <<2, 2>>}
    /\ Cardinality(DOMAIN sites) = 2

\* the sites of the builder inside the box b, in the builder's order
Clipped(b) == SelectSeq(bsites, LAMBDA s : InBox(coordinates(s), b))

\* C8: build() with an explicit box returns without an error, with that box
\* and with exactly the builder's sites inside it, numbered in their order;
\* the sites (1,1)..(6,6) with the box (2,2) 3x3 give exactly 3 sites.
C8_Clipping ==
    /\ [][(pc = "builder" /\ bounds # None) =>
            /\ pc' = "idle"
            /\ grid'.bounds = bounds[1]
            /\ DOMAIN sites' = 0..(Len(Clipped(bounds[1])) - 1)
            /\ \A k \in DOMAIN sites' :
                  sites'[k].site = Clipped(bounds[1])[k + 1] /\ sites'[k].id = k]_vars
    /\ [][(pc = "builder" /\ input = SixSites /\ bounds = Some(BoundingBox_new(2, 2, 3, 3)))
            => Cardinality(DOMAIN sites') = 3]_vars

\* build() has returned the clipped tessellation of the six sites
C8_Witness ==
    /\ pc = "idle"
    /\ last = "build"
    /\ grid.bounds = BoundingBox_new(2, 2, 3, 3)
    /\ Seeds = {<<2, 2>>, <<3, 3>>, <<4, 4>>}

\* b is the tight box of the coordinates cs
Tight(b, cs) ==
    /\ \A c \in cs : InBox(c, b)
    /\ \E c \in cs : c[1] = b.x_offset
    /\ \E c \in cs : c[1] = b.x_offset + b.width - 1
    /\ \E c \in cs : c[2] = b.y_offset
    /\ \E c \in cs : c[2] = b.y_offset + b.height - 1

\* C9: build() without a box on a nonempty builder returns with the tight box
\* of the builder's sites and retains every one of them, so n
\* coordinate-distinct input sites give n sites (6 for (1,1)..(6,6)).
C9_AutoFit ==
    /\ [][(pc = "builder" /\ bounds = None /\ bsites # <<>>) =>
            /\ pc' = "idle"
            /\ Tight(grid'.bounds, {coordinates(bsites[i]) : i \in DOMAIN bsites})
            /\ DOMAIN sites' = 0..(Len(bsites) - 1)
            /\ \A k \in DOMAIN sites' : sites'[k].site = bsites[k + 1]
            /\ (\A i, j \in DOMAIN input : i # j => coordinates(input[i]) # coordinates(input[j]))
                  => Cardinality(DOMAIN sites') = Len(input)]_vars
    /\ [][(pc = "builder" /\ input = SixSites /\ bounds = None) =>
            (grid'.bounds = BoundingBox_new(1, 1, 6, 6) /\ Cardinality(DOMAIN sites') = 6)]_vars

\* build() has returned the auto-fitted tessellation of the six sites
C9_Witness ==
    /\ pc = "idle"
    /\ last = "build"
    /\ grid.bounds = BoundingBox_new(1, 1, 6, 6)
    /\ Cardinality(DOMAIN sites) = 6

\* C10: build() on an empty builder without a box ends in the panic of
\* fit_to_sites and yields no tessellation.
C10_EmptyInput ==
    /\ [][(pc = "builder" /\ bsites = <<>> /\ bounds = None) =>
            (pc' = "panic" /\ grid' = None /\ sites' = <<>>)]_vars
    /\ [](pc = "panic" => grid = None)

\* build() has panicked on the empty input
C10_Witness ==
    /\ pc = "panic"
    /\ input = <<>>
    /\ grid = None

\* build() has returned and no call was made since
Built == pc = "idle" /\ last = "build"

\* C11: right after build() the cell of every site's own coordinate is owned
\* by that site, every other cell is unowned, no cell is contested, every
\* site's newly_claimed is its seed cell alone, and in the seeding order of the
\* run (build() takes every order) each seed claim reports one claimed cell and
\* no contested cell.
C11_Seeding ==
    Built =>
        /\ \A k \in DOMAIN sites :
              /\ InRange(grid, coordinates(sites[k].site))
              /\ grid.data[Offset(grid.bounds, coordinates(sites[k].site))].owner = Some(sites[k].id)
              /\ sites[k].id = k
              /\ sites[k].newly_claimed = <<coordinates(sites[k].site)>>
        /\ \A o \in Offsets :
              /\ ~grid.data[o].contested
              /\ grid.data[o].coordinates \notin Seeds => grid.data[o].owner = None
        /\ LET wrapped == [k \in DOMAIN sites |-> SiteWrapper_new(k, sites[k].site)]
               i == init_sites(Grid_new(grid.bounds), wrapped, order)
           IN  i.ok /\ i.asserted /\ i.grid = grid /\ i.sites = sites

\* build() has seeded two or more sites, site 1 before site 0, on a grid with
\* a free cell
C11_Witness ==
    /\ Built
    /\ Cardinality(DOMAIN sites) >= 2
    /\ order[1] = 1
    /\ \E o \in Offsets : grid.data[o].owner = None

DominanceCase ==
    /\ metric = "MultWeightedEuclidean"
    /\ grid.bounds = BoundingBox_new(0, 0, 14, 14)
    /\ {sites[k].site : k \in DOMAIN sites} = Range(DominanceSites)

\* C12: with the sites (2,4) and (4,9) of weight 8 and (9,11) and (9,4) of
\* weight 1, the box (0,0) 14x14 and MultWeightedEuclidean, each weight-8 site
\* owns strictly more cells than each weight-1 site once compute() has returned.
C12_WeightedDominance ==
    (Returned /\ DominanceCase) =>
        \A k, j \in DOMAIN sites :
            (weight(sites[k].site) = 8 /\ weight(sites[j].site) = 1) => Owned(k) > Owned(j)

\* compute() has returned on the dominance example: every site owns a cell and
\* the wavefronts have covered the grid up to tied cells
C12_Witness ==
    /\ Returned
    /\ DominanceCase
    /\ \A k \in DOMAIN sites : Owned(k) >= 1
    /\ \E k \in DOMAIN sites : Owned(k) > 50
    /\ \A o \in Offsets : grid.data[o].owner # None \/ grid.data[o].contested

\* C13: within every round of step() the sites take their turns in ascending
\* SiteOwner id: the keys still to be visited are ascending and none of them
\* is below a site that had its turn in this round.
C13_SiteOrder ==
    pc = "step" =>
        /\ \A i, j \in DOMAIN keys : i < j => keys[i] < keys[j]
        /\ \A k \in DOMAIN sites : k \notin Range(keys) => \A i \in DOMAIN keys : k < keys[i]

\* the boundary_chain that the next turn of step() hands to claim_cells
NextChain ==
    update_boundary_chain([sites[Head(keys)] EXCEPT !.boundary_chain = <<>>],
                          grid.bounds).boundary_chain

\* calls <<claimant, indices>> of claim_cells on the current grid: the call of
\* the next turn, and after a step() on a grid of at most MaxProbeCells cells
\* every claimant with every single cell and every pair of cells
ClaimInputs ==
    (IF pc = "step" /\ keys # <<>> THEN {<<Head(keys), NextChain>>} ELSE {})
    \cup
    (IF pc = "idle" /\ last = "step" /\ Cardinality(Offsets) <= MaxProbeCells
     THEN (DOMAIN sites) \X SeqsUpTo({grid.data[o].coordinates : o \in Offsets}, 2)
     ELSE {})

\* the positions of s in P, in ascending order
RECURSIVE PickSeq(_, _)
PickSeq(s, P) ==
    IF P = {} THEN <<>>
    ELSE LET i == CHOOSE x \in P : \A y \in P : x <= y
         IN  <<s[i]>> \o PickSeq(s, P \ {i})

\* the positions at which an index occurs for the first time
Firsts(indices) == {i \in DOMAIN indices : \A j \in 1..(i - 1) : indices[j] # indices[i]}

\* the case of the table a cell falls into for a claimant
RefCase(cell, claimant) ==
    IF cell.owner = Some(claimant) THEN "own"
    ELSE IF cell.owner # None THEN "other"
    ELSE IF cell.contested THEN "pending"
    ELSE "free"

\* the cell of the coordinate idx in the dense row-major array
CellAt(g, idx) ==
    g.data[(idx[1] - g.bounds.x_offset) + (idx[2] - g.bounds.y_offset) * g.bounds.width]

RefClaimed(g, indices, claimant) ==
    PickSeq(indices, {i \in Firsts(indices) : RefCase(CellAt(g, indices[i]), claimant) = "free"})

RefContested(g, indices, claimant) ==
    PickSeq([i \in DOMAIN indices |->
                <<indices[i], IF CellAt(g, indices[i]).owner = None THEN None
                              ELSE CellAt(g, indices[i]).owner[1]>>],
            {i \in Firsts(indices) : RefCase(CellAt(g, indices[i]), claimant) = "other"})

RefData(g, indices, claimant) ==
    [o \in DOMAIN g.data |->
        IF g.data[o].coordinates \notin Range(indices) THEN g.data[o]
        ELSE CASE RefCase(g.data[o], claimant) = "free" ->
                    [g.data[o] EXCEPT !.owner = Some(claimant)]
               [] RefCase(g.data[o], claimant) = "other" ->
                    [g.data[o] EXCEPT !.owner = None, !.contested = TRUE]
               [] OTHER -> g.data[o]]

\* C14: claim_cells follows the four-case table: a cell of the claimant and a
\* pending cell (no owner, contested) are left as they are, a free cell gets
\* the claimant as owner and is appended to claimed, a cell of another site
\* loses its owner, is marked contested and is appended with its previous
\* owner to contested, and every cell not named is unchanged.
C14_ClaimCellsTable ==
    [](grid # None =>
           \A inp \in ClaimInputs :
               LET r == claim_cells(grid, inp[2], inp[1])
               IN  /\ r.ok
                   /\ r.grid.bounds = grid.bounds
                   /\ r.grid.data = RefData(grid, inp[2], inp[1])
                   /\ r.claimed = RefClaimed(grid, inp[2], inp[1])
                   /\ r.contested = RefContested(grid, inp[2], inp[1]))

\* a turn is about to call claim_cells with a chain that names a cell twice
\* and holds a free cell, a cell of the claimant, a cell of another site and a
\* pending cell
C14_Witness ==
    /\ pc = "step"
    /\ keys # <<>>
    /\ LET chain == NextChain
       IN  /\ Firsts(chain) # DOMAIN chain
           /\ \A c \in {"own", "free", "other", "pending"} :
                 \E i \in DOMAIN chain : RefCase(CellAt(grid, chain[i]), Head(keys)) = c

NoRepeat(s) == \A i, j \in DOMAIN s : i # j => s[i] # s[j]

\* C15: no index occurs both in the claimed and in the contested list that
\* claim_cells returns, and no index occurs twice in either list, also when
\* the input names an index several times.
C15_ClaimCellsDisjoint ==
    [](grid # None =>
           \A inp \in ClaimInputs :
               LET r == claim_cells(grid, inp[2], inp[1])
                   lost == [i \in DOMAIN r.contested |-> r.contested[i][1]]
               IN  /\ Range(r.claimed) \cap Range(lost) = {}
                   /\ NoRepeat(r.claimed)
                   /\ NoRepeat(lost))

\* a turn is about to call claim_cells with a chain that names a free cell
\* twice and a cell of another site twice
C15_Witness ==
    /\ pc = "step"
    /\ keys # <<>>
    /\ LET chain == NextChain
       IN  \A c \in {"free", "other"} :
               \E i, j \in DOMAIN chain :
                   /\ i # j
                   /\ chain[i] = chain[j]
                   /\ RefCase(CellAt(grid, chain[i]), Head(keys)) = c

\* what claim_cells returns to the next turn of step()
NextClaim == claim_cells(grid, NextChain, Head(keys))

\* sign of (distance of site k to idx) - (distance of site p to idx)
Contend(k, p, idx) ==
    DistCmp(distance(metric, sites[k].site, idx), distance(metric, sites[p].site, idx))

\* C16: when a turn of step() gets the contested pair (idx, previous owner) and
\* the contender is strictly closer to idx than the previous owner, then at
\* the end of the turn idx is owned by the contender and is in the
\* contender's newly_claimed.
C16_ConflictWon ==
    [][(pc = "step" /\ keys # <<>>) =>
          LET pairs == NextClaim.contested
          IN  \A i \in DOMAIN pairs :
                  Contend(Head(keys), pairs[i][2], pairs[i][1]) < 0 =>
                      /\ pc' # "panic"
                      /\ CellAt(grid', pairs[i][1]).owner = Some(Head(keys))
                      /\ pairs[i][1] \in Range(sites'[Head(keys)].newly_claimed)]_vars

\* a turn is about to contest a cell of a site that is strictly farther from it
C16_Witness ==
    /\ pc = "step"
    /\ keys # <<>>
    /\ LET pairs == NextClaim.contested
       IN  \E i \in DOMAIN pairs : Contend(Head(keys), pairs[i][2], pairs[i][1]) < 0

\* C17: when a turn of step() gets the contested pair (idx, previous owner) and
\* the contender is strictly farther from idx than the previous owner, then at
\* the end of the turn idx is owned by the previous owner again and is not in
\* the contender's newly_claimed.
C17_ConflictLost ==
    [][(pc = "step" /\ keys # <<>>) =>
          LET pairs == NextClaim.contested
          IN  \A i \in DOMAIN pairs :
                  Contend(Head(keys), pairs[i][2], pairs[i][1]) > 0 =>
                      /\ pc' # "panic"
                      /\ CellAt(grid', pairs[i][1]).owner = Some(pairs[i][2])
                      /\ pairs[i][1] \notin Range(sites'[Head(keys)].newly_claimed)]_vars

\* a turn is about to contest a cell of a site that is strictly closer to it
C17_Witness ==
    /\ pc = "step"
    /\ keys # <<>>
    /\ LET pairs == NextClaim.contested
       IN  \E i \in DOMAIN pairs : Contend(Head(keys), pairs[i][2], pairs[i][1]) > 0

\* C18: at the end of every turn of step() no cell is both marked contested
\* and owned.
C18_ContestedUnowned ==
    (grid # None /\ pc \in {"step", "compute", "idle"}) =>
        \A o \in Offsets : ~(grid.data[o].contested /\ grid.data[o].owner # None)

\* the north, east, south and west neighbours of the cells C inside the box b
NeighbourSet(C, b) ==
    {n \in UNION {{<<c[1], c[2] + 1>>, <<c[1] + 1, c[2]>>, <<c[1], c[2] - 1>>, <<c[1] - 1, c[2]>>} :
                     c \in C} : InBox(n, b)}

\* the cells of the chain that site k wins in conflicts on the current grid
RefWon(chain, k) ==
    LET won == SelectSeq(RefContested(grid, chain, k), LAMBDA q : Contend(k, q[2], q[1]) < 0)
    IN  [i \in DOMAIN won |-> won[i][1]]

\* C19: in every turn of step() the boundary_chain handed to claim_cells is, as
\* a set, exactly the in-box north, east, south and west neighbours of the
\* cells the site had in newly_claimed before the turn, and after the turn
\* newly_claimed holds the cells claimed and won in this turn and nothing else.
C19_Frontier ==
    [][(pc = "step" /\ keys # <<>>) =>
          /\ pc' # "panic"
          /\ Range(sites'[Head(keys)].boundary_chain)
                = NeighbourSet(Range(sites[Head(keys)].newly_claimed), grid.bounds)
          /\ sites'[Head(keys)].newly_claimed
                = RefClaimed(grid, sites'[Head(keys)].boundary_chain, Head(keys))
                  \o RefWon(sites'[Head(keys)].boundary_chain, Head(keys))]_vars

\* compute() is in its second or a later round: a site that had a chain from
\* the round before has had its turn with a chain made from its last claims
C19_Witness ==
    /\ caller = "compute"
    /\ rounds >= 2
    /\ pc = "step"
    /\ \E k \in DOMAIN sites :
          /\ k \notin Range(keys)
          /\ sites[k].boundary_chain # <<>>
          /\ sites[k].newly_claimed # <<>>

\* idx is inside the box of the grid and its dense offset is below width * height
Addressable(idx) ==
    /\ InBox(idx, grid.bounds)
    /\ translate_idx(grid.bounds, idx)[1] \in 0..(grid.bounds.width - 1)
    /\ translate_idx(grid.bounds, idx)[2] \in 0..(grid.bounds.height - 1)
    /\ Offset(grid.bounds, idx) \in 0..(grid.bounds.width * grid.bounds.height - 1)

\* C20: over every sequence of build(), step() and compute() calls every index
\* handed to claim_cells or used to index the grid is inside the bounding box:
\* the seeds, the cells of every boundary_chain and the contested cells; no
\* call ends in an out-of-range panic.
C20_InBounds ==
    [](/\ pc = "panic" => (grid = None /\ sites = <<>>)
       /\ grid # None =>
             /\ \A k \in DOMAIN sites :
                   /\ Addressable(coordinates(sites[k].site))
                   /\ \A i \in DOMAIN sites[k].newly_claimed : Addressable(sites[k].newly_claimed[i])
                   /\ \A i \in DOMAIN sites[k].boundary_chain : Addressable(sites[k].boundary_chain[i])
             /\ (pc = "step" /\ keys # <<>>) =>
                   LET chain == NextChain
                       r == claim_cells(grid, chain, Head(keys))
                   IN  /\ \A i \in DOMAIN chain : Addressable(chain[i])
                       /\ r.ok
                       /\ \A i \in DOMAIN r.contested :
                             /\ Addressable(r.contested[i][1])
                             /\ r.contested[i][2] \in DOMAIN sites)

\* a turn is about to claim the neighbours of a cell on the east edge of the
\* box, whose east neighbour lies outside
C20_Witness ==
    /\ pc = "step"
    /\ keys # <<>>
    /\ NextChain # <<>>
    /\ \E i \in DOMAIN sites[Head(keys)].newly_claimed :
          /\ sites[Head(keys)].newly_claimed[i][1] = grid.bounds.x_offset + grid.bounds.width - 1
          /\ sites[Head(keys)].newly_claimed[i] # coordinates(sites[Head(keys)].site)

\* Grid::clear: every cell of the box loses its owner and its contested flag
Grid_clear(g) ==
    [g EXCEPT !.data = [o \in DOMAIN g.data |->
                          [g.data[o] EXCEPT !.contested = FALSE, !.owner = None]]]

\* the cell has no owner and is marked contested
Pending(cell) == cell.owner = None /\ cell.contested

\* C21: when a turn of step() finds the contender and the previous owner of a
\* contested cell at equal distances, the cell is left without owner and
\* marked contested, and no later step of step() or compute() changes a cell
\* that has no owner and is marked contested, while Grid::clear() would.
C21_TieAbsorbing ==
    [][grid # None =>
          /\ \A o \in Offsets :
                Pending(grid.data[o]) =>
                    /\ Pending(grid'.data[o])
                    /\ ~Pending(Grid_clear(grid).data[o])
          /\ (pc = "step" /\ keys # <<>>) =>
                LET pairs == NextClaim.contested
                IN  \A i \in DOMAIN pairs :
                        Contend(Head(keys), pairs[i][2], pairs[i][1]) = 0 =>
                            Pending(CellAt(grid', pairs[i][1]))]_vars

\* a turn is about to claim a chain that holds a tied cell to which the site
\* is strictly closer than some other site
C21_Witness ==
    /\ pc = "step"
    /\ keys # <<>>
    /\ LET chain == NextChain
       IN  \E i \in DOMAIN chain :
               /\ Pending(CellAt(grid, chain[i]))
               /\ \E p \in DOMAIN sites : Contend(Head(keys), p, chain[i]) < 0

\* the metrics without weights
Unweighted == {"Euclidean", "Manhattan"}

\* C22: under the Euclidean and the Manhattan metric, in every state after
\* build(), after any turn of step() or compute(), every site of the
\* tessellation owns the cell at its own coordinates.
C22_SeedRetention ==
    (grid # None /\ metric \in Unweighted) =>
        \A k \in DOMAIN sites :
            CellAt(grid, coordinates(sites[k].site)).owner = Some(k)

\* another site has reached a seed and lost it back: the seed is marked
\* contested and still owned by its site, after a step() or compute() call
C22_Witness ==
    /\ grid # None
    /\ metric \in Unweighted
    /\ pc = "idle"
    /\ last \in {"step", "compute"}
    /\ Cardinality(DOMAIN sites) >= 2
    /\ \E k \in DOMAIN sites :
           LET cell == CellAt(grid, coordinates(sites[k].site))
           IN  cell.contested /\ cell.owner = Some(k)

\* C23: whenever a site begins its turn in step(), every cell of its
\* newly_claimed is owned by that site, so that no cell taken over by another
\* site or turned into a tie is a source of its next boundary_chain.
C23_FrontierOwnership ==
    (pc = "step" /\ keys # <<>>) =>
        LET k == Head(keys)
            nc == sites[k].newly_claimed
        IN  \A i \in DOMAIN nc : CellAt(grid, nc[i]).owner = Some(k)

====
